---- MODULE Spec2Model ----
(***************************************************************************)
(* Iceland Sound Route: the route mapper (RouteMapping), the master clock  *)
(* (TimelineEngine), the audio engine (AudioEngine), the media selector    *)
(* (MediaController) and their coordinator (StateManager).                 *)
(*                                                                         *)
(* Time is counted in whole seconds (performance.now() in milliseconds,    *)
(* always a multiple of 1000).  All durations of the route configuration   *)
(* are integers, as in src/src/data/route-config.js.  JavaScript arrays    *)
(* are sequences; the 0-based `index` fields keep their JavaScript value.  *)
(***************************************************************************)
EXTENDS Integers, Sequences, FiniteSets, TLC

VARIABLES
    route,      \* RouteMapping: sections, processedSections, totalDuration
    qpos,       \* argument of the latest getContextAtPosition query (Null: none yet)
    ctx,        \* result of that query
    geo,        \* the latest interpolateGeoPosition call: path, progress and result (Null: none yet)
    listeners,  \* the listeners array of the TimelineEngine of the listener specification (callbacks by id)
    delivery,   \* its latest emitUpdate: [before, unsubscribing, throwing, got] (Null: none yet)
    op,         \* the mapper or clock operation that produced the current state
    wall,       \* the Date clock: whole seconds since local midnight
    perf,       \* performance.now(), in whole seconds
    tl,         \* TimelineEngine
    liveIntervals,  \* number of setInterval timers that have not been cleared
    emitted,    \* the broadcasts (data passed to the listeners) of the latest operation
    guard,      \* what the latest drift-guard pass (checkSync) saw and did
    ticked,     \* the broadcast loop has fired since time last advanced
    divTime,    \* seconds the running clock has stayed diverged while its loop kept firing
    seeked,     \* the latest seekTo on the running clock, [position, at (ms)] (Null: none since start, stop or resync)
    ae,         \* AudioEngine
    syncSeen,   \* the latest sync pass or 'ended' event: what happened, on which engine state
    selected,   \* the resource the latest preloadNextFile selected (Null: it did not run)
    awaiting,   \* per pending load of ae.loads: the caller that awaits (or has dropped) its promise
    syncReloadFailed,  \* a reload started by a sync pass has failed and no sync pass has run since
    held,       \* pause() has returned and its owner has called neither resume() nor startAtPosition() since
    mc,         \* MediaController
    sm,         \* StateManager
    timers,     \* the pending image timeouts of displayMedia, oldest first: the item each was set for
    changes,    \* the MediaChange events of the latest operation
    passLog,    \* per section: the items pickNextMedia has returned since the pool was last reset
    display,    \* MediaDisplay: what became of the item of the latest MediaChange
    evicted,    \* the key the latest selector operation deleted from preloadCache (NullId: none)
    heard       \* the position of the latest broadcast given to onTimelineUpdate (Null: none yet)

mapVars == <<route, qpos, ctx, geo, listeners, delivery>>
envVars == <<wall, perf>>
clockVars == <<tl, liveIntervals, emitted, guard, ticked, divTime, seeked>>
audioVars == <<ae, syncSeen, selected, awaiting, syncReloadFailed, held>>
mediaVars == <<mc, sm, timers, changes, passLog, display, evicted, heard>>
vars == <<route, qpos, ctx, geo, listeners, delivery, op, wall, perf, tl, liveIntervals, emitted, guard, ticked, divTime,
          seeked,
          ae, syncSeen, selected, awaiting, syncReloadFailed, held,
          mc, sm, timers, changes, passLog, display, evicted, heard>>

\* null and undefined where an object is expected
Null == [null |-> TRUE]
Undefined == [undefined |-> TRUE]

\* null where a section id (a string) is expected
NullId == "null"

\* a number where null is possible too
Num(n) == [num |-> n]

(***************************************************************************)
(* Bounds of the configurations the mapper is checked on.                  *)
(***************************************************************************)
MaxSections == 2
MaxFiles == 2
MaxDur == 2
\* performance.now() stops advancing at MaxPerf seconds
MaxPerf == 8
\* loadAndPlayFile calls that may be in flight at once
MaxLoads == 1
\* image timeouts that may be pending at once
MaxTimers == 2
\* performance.now() stops advancing at MaxPerfReload seconds where two sync
\* passes of the audio engine have to fit in
MaxPerfReload == 12
\* performance.now() stops advancing at MaxPerfCommands seconds in the
\* commands specification
MaxPerfCommands == 2
\* performance.now() stops advancing at MaxPerfDisplay seconds in the
\* display specification
MaxPerfDisplay == 3
\* loadAndPlayFile calls that may be in flight at once in the overlap
\* specification
MaxOverlap == 2
\* performance.now() stops advancing at MaxPerfSession seconds in the
\* session specification
MaxPerfSession == 2
\* the listeners array holds at most MaxListeners callbacks, out of MaxListeners
MaxListeners == 3
\* performance.now() stops advancing at MaxPerfSync seconds in the sync
\* specification
MaxPerfSync == 12
\* geographic paths have up to MaxPathLen points, each coordinate in 0..MaxCoord
MaxPathLen == 3
MaxCoord == 1

(***************************************************************************)
(* Constants of the program                                                *)
(***************************************************************************)
SecondsPerDay == 86400
TimelineSyncCheckInterval == 5000
TimelineDriftThreshold == 2
AudioSyncCheckInterval == 5000
\* syncThreshold = 0.5 s, counted in half seconds
AudioSyncThresholdHalves == 1
MaxCacheSize == 3

(***************************************************************************)
(* JavaScript arithmetic.                                                  *)
(***************************************************************************)
\* a % b of JavaScript for b > 0: the result has the sign of the dividend
JsMod(a, b) == IF a >= 0 THEN a % b ELSE 0 - ((0 - a) % b)

Abs(x) == IF x >= 0 THEN x ELSE 0 - x

\* Array.prototype.find: the element at the least of the matching indices,
\* undefined when no index matches
FirstMatch(seq, matches) ==
    IF matches = {} THEN Undefined
    ELSE seq[CHOOSE i \in matches : \A j \in matches : i <= j]

(***************************************************************************)
(* RouteMapping                                                            *)
(***************************************************************************)
\* sum of file.duration over the first n files (the reduce of line 35 and
\* the running audioFileOffset of lines 44-53)
RECURSIVE SumDurations(_, _)
SumDurations(files, n) ==
    IF n = 0 THEN 0 ELSE SumDurations(files, n - 1) + files[n].duration

\* cumulativeTime before section i: the durations of the sections before it
RECURSIVE CumulativeTime(_, _)
CumulativeTime(sections, i) ==
    IF i <= 1 THEN 0
    ELSE CumulativeTime(sections, i - 1)
         + SumDurations(sections[i - 1].audioFiles, Len(sections[i - 1].audioFiles))

ProcessedAudioFilesShifted(files, cumulativeTime) ==
    [k \in 1..Len(files) |->
        [url |-> files[k].url,
         duration |-> files[k].duration,
         index |-> k - 1,
         startTime |-> cumulativeTime + SumDurations(files, k - 1),
         endTime |-> cumulativeTime + SumDurations(files, k - 1) + files[k].duration + 1,
         offsetInSection |-> SumDurations(files, k - 1)]]

ProcessedAudioFiles(files, cumulativeTime) ==
    [k \in 1..Len(files) |->
        [url |-> files[k].url,
         duration |-> files[k].duration,
         index |-> k - 1,
         startTime |-> cumulativeTime + SumDurations(files, k - 1),
         endTime |-> cumulativeTime + SumDurations(files, k - 1) + files[k].duration,
         offsetInSection |-> SumDurations(files, k - 1)]]

MediaPoolCombined(mediaPool) ==
    [k \in 1..Len(mediaPool.videos) |-> [url |-> mediaPool.videos[k], type |-> "video"]]
    \o [k \in 1..Len(mediaPool.images) |-> [url |-> mediaPool.images[k], type |-> "image"]]

ProcessedSections(sections) ==
    [i \in 1..Len(sections) |->
        LET cumulativeTime == CumulativeTime(sections, i)
            sectionDuration == SumDurations(sections[i].audioFiles, Len(sections[i].audioFiles))
        IN [id |-> sections[i].id,
            mediaPool |-> sections[i].mediaPool,
            index |-> i - 1,
            duration |-> sectionDuration,
            startTime |-> cumulativeTime,
            endTime |-> cumulativeTime + sectionDuration,
            audioFiles |-> ProcessedAudioFiles(sections[i].audioFiles, cumulativeTime),
            mediaPoolCombined |-> MediaPoolCombined(sections[i].mediaPool)]]

\* constructor + processConfiguration
RouteMapping(routeConfig) ==
    [sections |-> routeConfig.sections,
     processedSections |-> ProcessedSections(routeConfig.sections),
     totalDuration |-> CumulativeTime(routeConfig.sections, Len(routeConfig.sections) + 1)]

InRangeClosedEnd(x, position) == position >= x.startTime /\ position <= x.endTime

InRange(x, position) == position >= x.startTime /\ position < x.endTime

findSectionAtPosition(rm, position) ==
    FirstMatch(rm.processedSections,
               {i \in 1..Len(rm.processedSections) : InRange(rm.processedSections[i], position)})

findAudioFileAtPosition(position, section) ==
    FirstMatch(section.audioFiles,
               {k \in 1..Len(section.audioFiles) : InRange(section.audioFiles[k], position)})

getSectionByIndex(rm, index) ==
    IF index + 1 \in 1..Len(rm.processedSections)
    THEN rm.processedSections[index + 1] ELSE Undefined

getContextAtPosition(rm, position) ==
    LET section == findSectionAtPosition(rm, position) IN
    IF section = Undefined THEN Null
    ELSE LET audioFile == findAudioFileAtPosition(position, section) IN
         IF audioFile = Undefined THEN Null
         ELSE [position |-> position,
               section |-> [id |-> section.id,
                            index |-> section.index,
                            duration |-> section.duration,
                            positionInSection |-> position - section.startTime],
               audio |-> [file |-> audioFile,
                          offsetInFile |-> position - audioFile.startTime],
               mediaPool |-> section.mediaPoolCombined]

\* A progress is a number of ProgressDen-ths; a coordinate computed by the
\* interpolation is the fraction num/den, and NaN when it is 0/0.
ProgressDen == 12

NaN == [nan |-> TRUE]

Fraction(num, den) == [num |-> num, den |-> den]

\* a point of the path as it is returned: [lat, lng]
PointOf(point) == [lat |-> Fraction(point[1], 1), lng |-> Fraction(point[2], 1)]

\* haversineDistance: the great-circle distance of two points, which is 0
\* for equal points and positive otherwise; on the integer grid the taxicab
\* distance stands for it
haversineDistance(a, b) == Abs(b[1] - a[1]) + Abs(b[2] - a[2])

\* the array distances of lines 242-251, up to its entry i (1-based)
RECURSIVE distancesUpTo(_, _)
distancesUpTo(path, i) ==
    IF i <= 1 THEN 0
    ELSE distancesUpTo(path, i - 1) + haversineDistance(path[i - 1], path[i])

\* interpolateGeoPosition(path, progress / ProgressDen).  targetDist is kept
\* in ProgressDen-ths; a path of fewer than two points has no path[1] to
\* destructure, so past the early returns the call throws; with totalDist 0
\* no segment is found, segmentIndex stays 0 and segmentProgress is 0/0.
interpolateGeoPosition(path, progress) ==
    IF progress <= 0 THEN (IF Len(path) = 0 THEN Undefined ELSE PointOf(path[1]))
    ELSE IF progress >= ProgressDen
    THEN (IF Len(path) = 0 THEN Undefined ELSE PointOf(path[Len(path)]))
    ELSE IF Len(path) < 2 THEN [thrown |-> "TypeError"]
    ELSE LET totalDist == distancesUpTo(path, Len(path))
             targetDist == progress * totalDist
             found == {i \in 1..(Len(path) - 1) :
                          /\ targetDist >= distancesUpTo(path, i) * ProgressDen
                          /\ targetDist < distancesUpTo(path, i + 1) * ProgressDen}
             segmentIndex == IF found = {} THEN 1
                             ELSE CHOOSE i \in found : \A j \in found : i <= j
             segmentStart == distancesUpTo(path, segmentIndex)
             segmentEnd == distancesUpTo(path, segmentIndex + 1)
             num == targetDist - segmentStart * ProgressDen
             den == (segmentEnd - segmentStart) * ProgressDen
             a == path[segmentIndex]
             b == path[segmentIndex + 1]
         IN IF den = 0 THEN [lat |-> NaN, lng |-> NaN]
            ELSE [lat |-> Fraction(a[1] * den + (b[1] - a[1]) * num, den),
                  lng |-> Fraction(a[2] * den + (b[2] - a[2]) * num, den)]

(***************************************************************************)
(* TimelineEngine                                                          *)
(***************************************************************************)
NowMs(pf) == pf * 1000

\* subscribe: push
subscribe(ls, callback) == Append(ls, callback)

\* the function subscribe returns: splice at indexOf(callback), if any
unsubscribe(ls, callback) ==
    IF \E k \in 1..Len(ls) : ls[k] = callback
    THEN LET index == CHOOSE k \in 1..Len(ls) :
                          /\ ls[k] = callback
                          /\ \A j \in 1..(k - 1) : ls[j] # callback
         IN SubSeq(ls, 1, index - 1) \o SubSeq(ls, index + 1, Len(ls))
    ELSE ls

\* this.listeners.forEach of emitUpdate from index k on (1-based), len
\* being the length of the array when forEach began: forEach visits the
\* indices below len that the array still has, in the array as it is when
\* each index is reached; a callback of unsubscribing calls its unsubscribe
\* function, a throwing one is caught by the try of line 505.  got counts
\* the calls of each callback.
RECURSIVE forEachListener(_, _, _, _, _)
forEachListener(ls, k, len, unsubscribing, got) ==
    IF k > len \/ k > Len(ls) THEN [listeners |-> ls, got |-> got]
    ELSE LET callback == ls[k] IN
         forEachListener(IF callback \in unsubscribing THEN unsubscribe(ls, callback) ELSE ls,
                         k + 1, len, unsubscribing,
                         [got EXCEPT ![callback] = @ + 1])

\* constructor
TimelineEngine(totalDuration) ==
    [totalDuration |-> totalDuration,
     startTime |-> Null,
     startPosition |-> Null,
     isPlaying |-> FALSE,
     updateInterval |-> FALSE,
     lastSyncCheck |-> 0]

\* secondsSinceMidnight % totalDuration
calculatePositionFromTimeOfDay(t, w) == JsMod(w, t.totalDuration)

getCurrentPosition(t, pf) ==
    IF ~t.isPlaying
    THEN (IF t.startPosition = Null THEN 0 ELSE t.startPosition.num)
    ELSE LET elapsed == (NowMs(pf) - t.startTime.num) \div 1000
         IN JsMod(t.startPosition.num + elapsed, t.totalDuration)

\* the data emitUpdate passes to every listener
UpdateData(t, pf) ==
    [position |-> getCurrentPosition(t, pf),
     totalDuration |-> t.totalDuration,
     timestamp |-> NowMs(pf)]

\* start without the test of line 424
tlStartWhilePlaying(t, w, pf, intervals) ==
    LET t1 == [t EXCEPT !.startPosition = Num(calculatePositionFromTimeOfDay(t, w)),
                        !.startTime = Num(NowMs(pf)),
                        !.isPlaying = TRUE,
                        !.updateInterval = TRUE]
    IN [t |-> t1, liveIntervals |-> intervals + 1, emitted |-> <<UpdateData(t1, pf)>>]

\* TimelineEngine.start: [t: the engine afterwards, liveIntervals: the
\* uncleared setInterval timers afterwards, emitted: its broadcasts]
tlStart(t, w, pf, intervals) ==
    IF t.isPlaying
    THEN [t |-> t, liveIntervals |-> intervals, emitted |-> <<>>]
    ELSE LET t1 == [t EXCEPT !.startPosition = Num(calculatePositionFromTimeOfDay(t, w)),
                             !.startTime = Num(NowMs(pf)),
                             !.isPlaying = TRUE,
                             !.updateInterval = TRUE]
         IN [t |-> t1, liveIntervals |-> intervals + 1, emitted |-> <<UpdateData(t1, pf)>>]

\* TimelineEngine.stop: [t: the engine afterwards, liveIntervals: the
\* uncleared setInterval timers afterwards]
tlStop(t, intervals) ==
    IF ~t.isPlaying
    THEN [t |-> t, liveIntervals |-> intervals]
    ELSE [t |-> [t EXCEPT !.isPlaying = FALSE, !.updateInterval = FALSE],
          liveIntervals |-> IF t.updateInterval THEN intervals - 1 ELSE intervals]

resyncKeepingReference(t, w, pf) ==
    [t EXCEPT !.startPosition = Num(calculatePositionFromTimeOfDay(t, w))]

\* resync, without its emitUpdate
resync(t, w, pf) ==
    [t EXCEPT !.startPosition = Num(calculatePositionFromTimeOfDay(t, w)),
              !.startTime = Num(NowMs(pf))]

seekTo(t, position, pf) ==
    [t EXCEPT !.startPosition = Num(JsMod(position, t.totalDuration)),
              !.startTime = Num(NowMs(pf))]

driftExceededNever(expectedPosition, currentPosition) == FALSE

\* checkSync, line 528-529: plain subtraction
driftExceeded(expectedPosition, currentPosition) ==
    Abs(expectedPosition - currentPosition) > TimelineDriftThreshold

\* checkSync: [t: the engine afterwards, ran: the pass got past the interval
\* test, resynced: it called resync, expected/current: what it compared]
checkSync(t, w, pf) ==
    IF NowMs(pf) - t.lastSyncCheck < TimelineSyncCheckInterval
    THEN [t |-> t, ran |-> FALSE, resynced |-> FALSE, expected |-> 0, current |-> 0]
    ELSE LET t1 == [t EXCEPT !.lastSyncCheck = NowMs(pf)]
             expectedPosition == calculatePositionFromTimeOfDay(t1, w)
             currentPosition == getCurrentPosition(t1, pf)
         IN IF driftExceeded(expectedPosition, currentPosition)
            THEN [t |-> resync(t1, w, pf), ran |-> TRUE, resynced |-> TRUE,
                  expected |-> expectedPosition, current |-> currentPosition]
            ELSE [t |-> t1, ran |-> TRUE, resynced |-> FALSE,
                  expected |-> expectedPosition, current |-> currentPosition]

NoSync == [did |-> "none", position |-> 0, before |-> Null]

NoGuard == [ran |-> FALSE, resynced |-> FALSE, expected |-> 0, current |-> 0]

\* shortest-arc distance of two positions on the cycle of length d
CircularDistance(a, b, d) ==
    LET x == (a - b) % d IN IF x <= d - x THEN x ELSE d - x

\* the running clock is more than the threshold away from the time-of-day position
Diverged(t, w, pf) ==
    /\ t.isPlaying
    /\ CircularDistance(getCurrentPosition(t, pf), calculatePositionFromTimeOfDay(t, w),
                        t.totalDuration) > TimelineDriftThreshold

\* divTime after a step; advanced: the step let one second pass
DivTimeAfter(advanced) ==
    IF ~Diverged(tl', wall', perf') THEN 0
    ELSE IF advanced /\ ticked /\ Diverged(tl, wall, perf) THEN divTime + 1
    ELSE divTime

(***************************************************************************)
(* AudioEngine                                                             *)
(***************************************************************************)
\* constructor and initialize; loads: the loadAndPlayFile calls that are
\* awaiting the element's load/play, each with the startAtPosition call it
\* belongs to
AudioEngine ==
    [audioContext |-> "running",
     currentAudio |-> Null,
     nextAudio |-> Null,
     currentFileInfo |-> Null,
     isPlaying |-> FALSE,
     preloadedFiles |-> {},
     lastSyncCheck |-> 0,
     loads |-> <<>>]

\* an HTML audio element on the resource fileInfo
AudioElement(fileInfo, currentTime, paused, endedListener) ==
    [src |-> fileInfo.url,
     duration |-> fileInfo.duration,
     currentTime |-> currentTime,
     paused |-> paused,
     ended |-> FALSE,
     endedListener |-> endedListener]

\* startAtPosition up to the await of loadAndPlayFile
startAtPosition(rm, a, position) ==
    LET context == getContextAtPosition(rm, position) IN
    IF context = Null THEN a
    ELSE [a EXCEPT !.loads = Append(@, [fileInfo |-> context.audio.file,
                                        offset |-> context.audio.offsetInFile,
                                        position |-> position])]

\* preloadNextFile, lines 180-200: context.section is the object built by
\* getContextAtPosition (id, index, name, duration, progressInSection); it has
\* no audioFiles, so context.section.audioFiles?.length - 1 is NaN and the
\* comparison of line 186 is false
nextFile(rm, context) ==
    LET currentFileIndex == context.audio.file.index
        currentSectionIndex == context.section.index
        fileFollowsInSection ==
            IF "audioFiles" \in DOMAIN context.section
            THEN currentFileIndex < Len(context.section.audioFiles) - 1
            ELSE FALSE
    IN IF fileFollowsInSection
       THEN getSectionByIndex(rm, currentSectionIndex).audioFiles[currentFileIndex + 2]
       ELSE LET nextSection == getSectionByIndex(rm, currentSectionIndex + 1) IN
            IF nextSection # Undefined
            THEN nextSection.audioFiles[1]
            ELSE getSectionByIndex(rm, 0).audioFiles[1]

preloadNextFile(rm, a, currentPosition) ==
    LET context == getContextAtPosition(rm, currentPosition) IN
    IF context = Null THEN a
    ELSE LET next == nextFile(rm, context) IN
         IF next.url \in a.preloadedFiles THEN a
         ELSE [a EXCEPT !.nextAudio = AudioElement(next, 0, TRUE, FALSE),
                        !.preloadedFiles = @ \cup {next.url}]

\* the rest of loadAndPlayFile and of startAtPosition once load i has
\* loaded and play() has resolved
loadCompleted(rm, a, i) ==
    LET load == a.loads[i]
        audio == AudioElement(load.fileInfo, load.offset, FALSE, TRUE)
        a1 == [a EXCEPT !.loads = SubSeq(@, 1, i - 1) \o SubSeq(@, i + 1, Len(@)),
                        !.currentAudio = audio,
                        !.currentFileInfo = load.fileInfo,
                        !.isPlaying = TRUE]
    IN preloadNextFile(rm, a1, load.position)

\* load() or play() of load i rejects: loadAndPlayFile rethrows, startAtPosition ends
loadFailed(a, i) ==
    [a EXCEPT !.loads = SubSeq(@, 1, i - 1) \o SubSeq(@, i + 1, Len(@))]

onAudioEnded(a) ==
    IF a.nextAudio # Null
    THEN [a EXCEPT !.currentAudio = [a.nextAudio EXCEPT !.paused = FALSE],
                   !.nextAudio = Null]
    ELSE a

\* drift > syncThreshold, the threshold being half a second
audioDriftExceeded(expectedOffset, actualOffset) ==
    2 * Abs(expectedOffset - actualOffset) > AudioSyncThresholdHalves

\* syncToPosition: [a: the engine afterwards, did: what the pass did]
syncToPosition(rm, a, expectedPosition) ==
    IF a.currentAudio = Null \/ ~a.isPlaying THEN [a |-> a, did |-> "skipped"]
    ELSE LET context == getContextAtPosition(rm, expectedPosition) IN
         IF context = Null THEN [a |-> a, did |-> "skipped"]
         ELSE IF a.currentFileInfo = Null \/ context.audio.file.url # a.currentFileInfo.url
         THEN [a |-> startAtPosition(rm, a, expectedPosition), did |-> "reload"]
         ELSE IF audioDriftExceeded(context.audio.offsetInFile, a.currentAudio.currentTime)
         THEN [a |-> [a EXCEPT !.currentAudio.currentTime = context.audio.offsetInFile],
               did |-> "seek"]
         ELSE [a |-> a, did |-> "nothing"]

\* update with >= in the test of line 295
updateFromTheInterval(rm, a, position, pf) ==
    IF ~a.isPlaying THEN [a |-> a, did |-> "none"]
    ELSE IF NowMs(pf) - a.lastSyncCheck >= AudioSyncCheckInterval
    THEN LET r == syncToPosition(rm, a, position)
         IN [a |-> [r.a EXCEPT !.lastSyncCheck = NowMs(pf)], did |-> r.did]
    ELSE [a |-> a, did |-> "none"]

\* update(timelineData)
update(rm, a, position, pf) ==
    IF ~a.isPlaying THEN [a |-> a, did |-> "none"]
    ELSE IF NowMs(pf) - a.lastSyncCheck > AudioSyncCheckInterval
    THEN LET r == syncToPosition(rm, a, position)
         IN [a |-> [r.a EXCEPT !.lastSyncCheck = NowMs(pf)], did |-> r.did]
    ELSE [a |-> a, did |-> "none"]

pause(a) ==
    [a EXCEPT !.currentAudio = IF @ = Null THEN @ ELSE [@ EXCEPT !.paused = TRUE],
              !.isPlaying = FALSE]

\* resume, its await taken as resolved at once
resume(a) ==
    [a EXCEPT !.currentAudio = IF @ = Null THEN @ ELSE [@ EXCEPT !.paused = FALSE],
              !.isPlaying = TRUE]

\* destroy: the pending loads stay in flight
destroy(a) ==
    [a EXCEPT !.currentAudio = Null,
              !.nextAudio = Null,
              !.audioContext = "closed",
              !.preloadedFiles = {}]

\* the playing element one second later: it plays on, or stalls (buffering)
ElementsAfterOneSecond(e) ==
    IF e = Null \/ e.paused \/ e.ended THEN {e}
    ELSE {e, [e EXCEPT !.currentTime = IF @ < e.duration THEN @ + 1 ELSE @]}

(***************************************************************************)
(* MediaController                                                         *)
(***************************************************************************)
\* initializeSectionStates
SectionStates(rm) ==
    [id \in {rm.processedSections[i].id : i \in 1..Len(rm.processedSections)} |->
        LET section == FirstMatch(rm.processedSections,
                                  {i \in 1..Len(rm.processedSections) :
                                       rm.processedSections[i].id = id})
        IN [available |-> section.mediaPoolCombined,
            shown |-> <<>>,
            currentlyPlaying |-> Null]]

\* constructor; preloadCache: the keys of the Map, in insertion order
MediaController(rm) ==
    [currentSection |-> NullId,
     currentMedia |-> Null,
     nextMedia |-> Null,
     sectionStates |-> SectionStates(rm),
     preloadCache |-> <<>>]

\* the orders shuffleArray (Fisher-Yates with Math.random) can leave an array in
shuffleArray(array) ==
    {[i \in 1..Len(array) |-> array[f[i]]] :
        f \in {g \in [1..Len(array) -> 1..Len(array)] :
                  \A x, y \in 1..Len(array) : g[x] = g[y] => x = y}}

RemoveAt(seq, i) == SubSeq(seq, 1, i - 1) \o SubSeq(seq, i + 1, Len(seq))

\* lines 460-469 without the splice of line 464
drawKeepingAvailable(state) ==
    IF Len(state.available) = 0
    THEN {[state |-> [state EXCEPT !.shown = Append(@, Undefined),
                                   !.currentlyPlaying = Undefined],
           item |-> Undefined]}
    ELSE {[state |-> [state EXCEPT !.shown = Append(@, state.available[randomIndex]),
                                   !.currentlyPlaying = state.available[randomIndex]],
           item |-> state.available[randomIndex]] :
             randomIndex \in 1..Len(state.available)}

\* lines 460-469: the draw from a section state.  On an empty available list
\* randomIndex is 0, the item is undefined, splice removes nothing and
\* undefined is pushed to shown.
draw(state) ==
    IF Len(state.available) = 0
    THEN {[state |-> [state EXCEPT !.shown = Append(@, Undefined),
                                   !.currentlyPlaying = Undefined],
           item |-> Undefined]}
    ELSE {[state |-> [state EXCEPT !.available = RemoveAt(@, randomIndex),
                                   !.shown = Append(@, state.available[randomIndex]),
                                   !.currentlyPlaying = state.available[randomIndex]],
           item |-> state.available[randomIndex]] :
             randomIndex \in 1..Len(state.available)}

\* pickNextMedia: the possible [m: controller afterwards, item: the item
\* returned, reset: the pool was reset by this call]
pickNextMedia(m, sectionId) ==
    LET state == m.sectionStates[sectionId]
        reset == Len(state.available) = 0
        states == IF reset
                  THEN {[state EXCEPT !.available = a, !.shown = <<>>] :
                            a \in shuffleArray(state.shown)}
                  ELSE {state}
    IN {[m |-> [m EXCEPT !.sectionStates[sectionId] = d.state],
         item |-> d.item,
         reset |-> reset] : d \in UNION {draw(st) : st \in states}}

\* displayMedia: [m: controller afterwards, timers: the pending image
\* timeouts afterwards]; the MediaChange it emits is the item itself
displayMedia(m, pending, mediaItem) ==
    [m |-> [m EXCEPT !.currentMedia = mediaItem],
     timers |-> IF mediaItem.type = "image" THEN Append(pending, mediaItem) ELSE pending]

\* preloadNext deleting the key inserted last when the cache is full
preloadNextEvictingLatest(m, sectionId) ==
    LET state == m.sectionStates[sectionId] IN
    IF Len(state.available) = 0 THEN {m}
    ELSE {LET nextItem == state.available[randomIndex] IN
          IF \E k \in 1..Len(m.preloadCache) : m.preloadCache[k] = nextItem.url
          THEN m
          ELSE LET cache == IF Len(m.preloadCache) >= MaxCacheSize
                            THEN SubSeq(m.preloadCache, 1, Len(m.preloadCache) - 1)
                            ELSE m.preloadCache
               IN [m EXCEPT !.preloadCache = Append(cache, nextItem.url),
                            !.nextMedia = nextItem] :
             randomIndex \in 1..Len(state.available)}

\* preloadNext: the possible controllers afterwards
preloadNext(m, sectionId) ==
    LET state == m.sectionStates[sectionId] IN
    IF Len(state.available) = 0 THEN {m}
    ELSE {LET nextItem == state.available[randomIndex] IN
          IF \E k \in 1..Len(m.preloadCache) : m.preloadCache[k] = nextItem.url
          THEN m
          ELSE LET cache == IF Len(m.preloadCache) >= MaxCacheSize
                            THEN Tail(m.preloadCache) ELSE m.preloadCache
               IN [m EXCEPT !.preloadCache = Append(cache, nextItem.url),
                            !.nextMedia = nextItem] :
             randomIndex \in 1..Len(state.available)}

\* what a draw-and-display leaves: controller, timers, the MediaChange events
\* emitted, the item drawn and whether the pool was reset
Outcome(m, pending, events, item, reset, sectionId) ==
    [m |-> m, timers |-> pending, changes |-> events, item |-> item,
     reset |-> reset, section |-> sectionId]

\* the part start and transitionToNext share: pick, display, preload
pickDisplayPreload(m, pending, sectionId) ==
    UNION {IF p.item = Undefined
           THEN {Outcome(p.m, pending, <<>>, p.item, p.reset, sectionId)}
           ELSE LET d == displayMedia(p.m, pending, p.item)
                IN {Outcome(m2, d.timers, <<p.item>>, p.item, p.reset, sectionId) :
                       m2 \in preloadNext(d.m, sectionId)} :
             p \in pickNextMedia(m, sectionId)}

\* MediaController.start
mcStart(m, pending, sectionId) ==
    pickDisplayPreload([m EXCEPT !.currentSection = sectionId], pending, sectionId)

\* transitionToNext; currentContext: StateManager.currentContext
transitionToNext(m, pending, currentContext) ==
    IF currentContext = Null
    THEN {Outcome(m, pending, <<>>, Null, FALSE, NullId)}
    ELSE LET newSectionId == currentContext.section.id
             m1 == IF newSectionId # m.currentSection
                   THEN [m EXCEPT !.currentSection = newSectionId] ELSE m
         IN pickDisplayPreload(m1, pending, m1.currentSection)

\* onSectionChange: the possible controllers afterwards
onSectionChange(m, newSectionId) ==
    IF m.currentSection = newSectionId THEN {m}
    ELSE preloadNext([m EXCEPT !.currentSection = newSectionId,
                               !.preloadCache = <<>>], newSectionId)

\* lines 546-549, for an operation that took the controller from m to m2:
\* the key preloadNext deleted, the first of the Map's keys, when it found
\* the cache at maxCacheSize (an operation calls preloadNext once at most,
\* and a cache that onSectionChange cleared is not at maxCacheSize)
evictedKey(m, m2) ==
    IF /\ m2.preloadCache # m.preloadCache
       /\ Len(m.preloadCache) >= MaxCacheSize
       /\ Len(m2.preloadCache) >= MaxCacheSize
    THEN Head(m.preloadCache)
    ELSE NullId

(***************************************************************************)
(* StateManager                                                            *)
(***************************************************************************)
\* constructor and initialize: no step of initialize (RouteMapping,
\* TimelineEngine, AudioEngine, MediaController, subscribe) inspects the
\* sections or the durations, so it ends with isInitialized = true
StateManager ==
    [isInitialized |-> TRUE,
     isPlaying |-> FALSE,
     currentContext |-> Null,
     lastSectionId |-> NullId]

\* onTimelineUpdate on b = [ae, sm, mc, awaiting, syncReloadFailed,
\* syncSeen, held, heard]: the possible values of b afterwards; the page has
\* none of the 'now playing' elements, so lines 184-215 write nothing
onTimelineUpdate(rm, b, position, pf) ==
    LET context == getContextAtPosition(rm, position) IN
    IF context = Null THEN {[b EXCEPT !.heard = Num(position)]}
    ELSE LET r == update(rm, b.ae, position, pf)
             ran == r.did \in {"reload", "seek", "nothing"}
             b1 == [b EXCEPT !.ae = r.a,
                             !.awaiting = IF r.did = "reload" THEN Append(@, "sync") ELSE @,
                             !.syncReloadFailed = IF ran THEN FALSE ELSE @,
                             !.syncSeen = IF ran
                                          THEN [did |-> r.did, position |-> position,
                                                before |-> b.ae]
                                          ELSE [did |-> "none", position |-> 0, before |-> Null],
                             !.sm.currentContext = context,
                             !.heard = Num(position)]
         IN IF context.section.id # b.sm.lastSectionId
            THEN {[b1 EXCEPT !.sm.lastSectionId = context.section.id, !.mc = m] :
                     m \in onSectionChange(b.mc, context.section.id)}
            ELSE {b1}

\* the listener of the clock's broadcasts (subscribe, lines 77-79) called
\* with each broadcast of a sequence in turn, on any b of bs
RECURSIVE broadcastTo(_, _, _, _)
broadcastTo(rm, bs, broadcasts, pf) ==
    IF broadcasts = <<>> THEN bs
    ELSE broadcastTo(rm,
                     UNION {onTimelineUpdate(rm, b, Head(broadcasts).position, pf) : b \in bs},
                     Tail(broadcasts), pf)

(***************************************************************************)
(* Configurations                                                          *)
(***************************************************************************)
Durations == {d - 1 : d \in 0..(MaxDur + 1)}

FileDurationLists == UNION {[1..n -> Durations] : n \in 0..MaxFiles}

SectionLists == UNION {[1..n -> FileDurationLists] : n \in 0..MaxSections}

SectionIds == <<"section_1", "section_2", "section_3", "section_4">>

EmptyPool == [videos |-> <<>>, images |-> <<>>]

\* a configuration whose section i holds audio files with the given durations
ConfigOf(durs, pools) ==
    [sections |->
        [i \in 1..Len(durs) |->
            [id |-> SectionIds[i],
             audioFiles |-> [k \in 1..Len(durs[i]) |->
                                [url |-> <<"audio", i, k>>, duration |-> durs[i][k]]],
             mediaPool |-> pools[i]]]]

\* the configuration the clock, the audio engine and the selector run on:
\* three sections of 5, 4 and 2 seconds (totalDuration 11, which does not
\* divide the day, as the 12056 s of route-config.js does not)
MainConfig ==
    ConfigOf(<< <<3, 2>>, <<4>>, <<2>> >>,
             << [videos |-> <<"video_01", "video_02">>, images |-> <<"image_01">>],
                [videos |-> <<>>, images |-> <<"image_02">>],
                EmptyPool >>)

\* times of day at which the page is opened
InitWalls == {0, 30000, SecondsPerDay - 2}

\* arguments given to seekTo
SeekArgs == {0 - 13, 0 - 1, 0, 4, 10, 11, 23}

MapperConfigs == {ConfigOf(d, [i \in 1..Len(d) |-> EmptyPool]) : d \in SectionLists}

(***************************************************************************)
(* Mapper specification: any bounded configuration, any query.             *)
(***************************************************************************)
InitSystems(r) ==
    /\ route = r
    /\ qpos = Null
    /\ ctx = Null
    /\ op = "init"
    /\ perf = 0
    /\ tl = TimelineEngine(r.totalDuration)
    /\ liveIntervals = 0
    /\ emitted = <<>>
    /\ guard = NoGuard
    /\ ticked = FALSE
    /\ divTime = 0
    /\ seeked = Null
    /\ ae = AudioEngine
    /\ syncSeen = NoSync
    /\ selected = Null
    /\ awaiting = <<>>
    /\ syncReloadFailed = FALSE
    /\ held = FALSE
    /\ mc = MediaController(r)
    /\ sm = StateManager
    /\ timers = <<>>
    /\ changes = <<>>
    /\ passLog = [id \in DOMAIN mc.sectionStates |-> <<>>]
    /\ display = "none"
    /\ evicted = NullId
    /\ heard = Null
    /\ listeners = <<>>
    /\ delivery = Null

InitEnv(r) ==
    /\ InitSystems(r)
    /\ geo = Null

InitMap ==
    /\ \E c \in MapperConfigs : InitEnv(RouteMapping(c))
    /\ wall = 0

QueryContext(position) ==
    /\ qpos' = Num(position)
    /\ ctx' = getContextAtPosition(route, position)
    /\ op' = "getContextAtPosition"
    /\ UNCHANGED <<route, geo, listeners, delivery, envVars, clockVars, audioVars, mediaVars>>

NextMap == \E position \in (0 - 1)..(route.totalDuration + 1) : QueryContext(position)

SpecMap == InitMap /\ [][NextMap]_vars

(***************************************************************************)
(* Path specification: interpolateGeoPosition on any bounded path and      *)
(* progress.                                                               *)
(***************************************************************************)
GeoPoints == {<<lat, lng>> : lat \in 0..MaxCoord, lng \in 0..MaxCoord}

GeoPaths == UNION {[1..n -> GeoPoints] : n \in 0..MaxPathLen}

\* progress from -1/12 to 13/12
Progresses == (0 - 1)..(ProgressDen + 1)

InitGeo ==
    /\ InitSystems(RouteMapping(MainConfig))
    /\ wall = 0
    /\ \E path \in GeoPaths : geo = [path |-> path, progress |-> Null, result |-> Null]

Interpolate(progress) ==
    /\ geo' = [geo EXCEPT !.progress = progress,
                          !.result = interpolateGeoPosition(geo.path, progress)]
    /\ op' = "interpolateGeoPosition"
    /\ UNCHANGED <<route, qpos, ctx, listeners, delivery, envVars, clockVars, audioVars, mediaVars>>

NextGeo == \E progress \in Progresses : Interpolate(progress)

SpecGeo == InitGeo /\ [][NextGeo]_vars

(***************************************************************************)
(* Clock specification: the TimelineEngine alone, under real time.         *)
(***************************************************************************)
InitClock ==
    /\ InitEnv(RouteMapping(MainConfig))
    /\ wall \in InitWalls

\* one second passes on both clocks
OneSecondPasses ==
    /\ perf' = perf + 1
    /\ wall' = (wall + 1) % SecondsPerDay
    /\ op' = "advance"
    /\ emitted' = <<>>
    /\ guard' = NoGuard
    /\ ticked' = FALSE
    /\ \E e \in ElementsAfterOneSecond(ae.currentAudio) : ae' = [ae EXCEPT !.currentAudio = e]
    /\ syncSeen' = NoSync
    /\ selected' = Null
    /\ UNCHANGED <<mapVars, mediaVars, tl, liveIntervals, awaiting, syncReloadFailed, held>>
    /\ divTime' = DivTimeAfter(TRUE)
    /\ UNCHANGED seeked

Advance == perf < MaxPerf /\ OneSecondPasses

\* TimelineEngine.start
TLStart ==
    /\ ~tl.isPlaying
    /\ LET r == tlStart(tl, wall, perf, liveIntervals) IN
       /\ tl' = r.t
       /\ liveIntervals' = r.liveIntervals
       /\ emitted' = r.emitted
    /\ op' = "start"
    /\ guard' = NoGuard
    /\ UNCHANGED <<mapVars, audioVars, mediaVars, envVars, ticked>>
    /\ divTime' = DivTimeAfter(FALSE)
    /\ seeked' = Null

\* TimelineEngine.stop
TLStop ==
    /\ tl.isPlaying
    /\ LET r == tlStop(tl, liveIntervals) IN
       /\ tl' = r.t
       /\ liveIntervals' = r.liveIntervals
    /\ emitted' = <<>>
    /\ op' = "stop"
    /\ guard' = NoGuard
    /\ UNCHANGED <<mapVars, audioVars, mediaVars, envVars, ticked>>
    /\ divTime' = DivTimeAfter(FALSE)
    /\ seeked' = Null

\* TimelineEngine.resync
TLResync ==
    /\ tl' = resync(tl, wall, perf)
    /\ emitted' = <<UpdateData(tl', perf)>>
    /\ op' = "resync"
    /\ guard' = NoGuard
    /\ UNCHANGED <<mapVars, audioVars, mediaVars, envVars, liveIntervals, ticked>>
    /\ divTime' = DivTimeAfter(FALSE)
    /\ seeked' = Null

\* TimelineEngine.seekTo
TLSeekTo(position) ==
    /\ tl' = seekTo(tl, position, perf)
    /\ emitted' = <<UpdateData(tl', perf)>>
    /\ op' = "seekTo"
    /\ guard' = NoGuard
    /\ UNCHANGED <<mapVars, audioVars, mediaVars, envVars, liveIntervals, ticked>>
    /\ divTime' = DivTimeAfter(FALSE)
    /\ seeked' = IF tl.isPlaying THEN [position |-> position, at |-> NowMs(perf)] ELSE Null

\* the setInterval callback of start: emitUpdate, then checkSync
TLTick ==
    /\ liveIntervals > 0
    /\ LET r == checkSync(tl, wall, perf) IN
       /\ tl' = r.t
       /\ guard' = [ran |-> r.ran, resynced |-> r.resynced,
                    expected |-> r.expected, current |-> r.current]
       /\ emitted' = IF r.resynced
                     THEN <<UpdateData(tl, perf), UpdateData(r.t, perf)>>
                     ELSE <<UpdateData(tl, perf)>>
    /\ op' = "tick"
    /\ ticked' = TRUE
    /\ UNCHANGED <<mapVars, audioVars, mediaVars, envVars, liveIntervals>>
    /\ divTime' = DivTimeAfter(FALSE)
    /\ UNCHANGED seeked

NextClock ==
    \/ Advance
    \/ TLStart
    \/ TLStop
    \/ TLResync
    \/ \E position \in SeekArgs : TLSeekTo(position)
    \/ TLTick

SpecClock == InitClock /\ [][NextClock]_vars

(***************************************************************************)
(* Audio specification: the AudioEngine alone; the positions it is given   *)
(* are inputs.                                                             *)
(***************************************************************************)
\* positions given to startAtPosition and update: in every file, at its
\* start and inside it, and one outside the cycle
AudioPositions == {0, 2, 3, 4, 5, 8, 9, 10, 11}

InitAudio ==
    /\ InitEnv(RouteMapping(MainConfig))
    /\ wall = 0

\* what every audio action leaves alone
AudioFrame ==
    /\ emitted' = <<>>
    /\ guard' = NoGuard
    /\ UNCHANGED <<mapVars, envVars, mediaVars, tl, liveIntervals, ticked, divTime, seeked>>

\* AudioEngine.startAtPosition, up to its await
AEStartAtPositionWithin(position, maxLoads) ==
    /\ ae.audioContext = "running"
    /\ Len(ae.loads) < maxLoads
    /\ ae' = startAtPosition(route, ae, position)
    /\ awaiting' = IF Len(ae'.loads) > Len(ae.loads) THEN Append(awaiting, "caller") ELSE awaiting
    /\ op' = "audio"
    /\ syncSeen' = NoSync
    /\ selected' = Null
    /\ UNCHANGED syncReloadFailed
    /\ held' = FALSE
    /\ AudioFrame

AEStartAtPosition(position) == AEStartAtPositionWithin(position, MaxLoads)

\* the awaited load and play of a pending loadAndPlayFile succeed, for a
\* startAtPosition whose caller does nothing more
AELoadCompleted(i) ==
    /\ i \in 1..Len(ae.loads)
    /\ awaiting[i] \in {"caller", "sync"}
    /\ ae' = loadCompleted(route, ae, i)
    /\ awaiting' = RemoveAt(awaiting, i)
    /\ syncReloadFailed' = FALSE
    /\ UNCHANGED held
    /\ selected' = nextFile(route, getContextAtPosition(route, ae.loads[i].position))
    /\ op' = "audio"
    /\ syncSeen' = NoSync
    /\ AudioFrame

\* the awaited load or play of a pending loadAndPlayFile fails
AELoadFailed(i) ==
    /\ i \in 1..Len(ae.loads)
    /\ ae' = loadFailed(ae, i)
    /\ awaiting' = RemoveAt(awaiting, i)
    /\ syncReloadFailed' = (syncReloadFailed \/ awaiting[i] = "sync")
    /\ UNCHANGED held
    /\ op' = "audio"
    /\ syncSeen' = NoSync
    /\ selected' = Null
    /\ AudioFrame

\* AudioEngine.update with the position of a broadcast
AEUpdateWithin(position, maxLoads) ==
    /\ ae.audioContext = "running"
    /\ LET r == update(route, ae, position, perf) IN
       /\ r.did = "reload" => Len(ae.loads) < maxLoads
       /\ ae' = r.a
       /\ awaiting' = IF r.did = "reload" THEN Append(awaiting, "sync") ELSE awaiting
       /\ syncReloadFailed' = IF r.did \in {"reload", "seek", "nothing"}
                              THEN FALSE ELSE syncReloadFailed
       /\ UNCHANGED held
       /\ syncSeen' = IF r.did \in {"reload", "seek", "nothing"}
                      THEN [did |-> r.did, position |-> position, before |-> ae]
                      ELSE NoSync
    /\ op' = "update"
    /\ selected' = Null
    /\ AudioFrame

AEUpdate(position) == AEUpdateWithin(position, MaxLoads)

\* the 'ended' event of the current element, which has played to its end
AEAudioEnded ==
    /\ ae.currentAudio # Null
    /\ ae.currentAudio.endedListener
    /\ ~ae.currentAudio.paused
    /\ ~ae.currentAudio.ended
    /\ ae.currentAudio.currentTime = ae.currentAudio.duration
    /\ ae' = onAudioEnded([ae EXCEPT !.currentAudio.ended = TRUE])
    /\ op' = "audio"
    /\ syncSeen' = [did |-> "ended", position |-> 0, before |-> ae]
    /\ selected' = Null
    /\ UNCHANGED <<awaiting, syncReloadFailed, held>>
    /\ AudioFrame

\* AudioEngine.pause
AEPause ==
    /\ ae.audioContext = "running"
    /\ ae' = pause(ae)
    /\ op' = "audio"
    /\ syncSeen' = NoSync
    /\ selected' = Null
    /\ held' = TRUE
    /\ UNCHANGED <<awaiting, syncReloadFailed>>
    /\ AudioFrame

\* AudioEngine.destroy; its owner calls nothing on the engine afterwards
AEDestroy ==
    /\ ae.audioContext = "running"
    /\ ae' = destroy(ae)
    /\ op' = "audio"
    /\ syncSeen' = NoSync
    /\ selected' = Null
    /\ UNCHANGED <<awaiting, syncReloadFailed, held>>
    /\ AudioFrame

NextAudio ==
    \/ Advance
    \/ \E position \in AudioPositions : AEStartAtPosition(position)
    \/ \E i \in 1..MaxLoads : AELoadCompleted(i)
    \/ \E i \in 1..MaxLoads : AELoadFailed(i)
    \/ \E position \in AudioPositions : AEUpdate(position)
    \/ AEAudioEnded
    \/ AEPause
    \/ AEDestroy

SpecAudio == InitAudio /\ [][NextAudio]_vars

(***************************************************************************)
(* Sync specification: the AudioEngine over a time long enough for two     *)
(* sync passes, with updates at any time in between.                       *)
(***************************************************************************)
\* positions given to startAtPosition and update: one in each of the first
\* two sections
SyncPositions == {0, 5}

AdvanceSync == perf < MaxPerfSync /\ OneSecondPasses

NextSync ==
    \/ AdvanceSync
    \/ \E position \in SyncPositions : AEStartAtPosition(position)
    \/ \E i \in 1..MaxLoads : AELoadCompleted(i)
    \/ \E position \in SyncPositions : AEUpdate(position)
    \/ AEAudioEnded
    \/ AEPause

SpecSync == InitAudio /\ [][NextSync]_vars

(***************************************************************************)
(* Reload specification: the AudioEngine over a time long enough for a     *)
(* sync pass, the failure of its reload and the sync pass after it.        *)
(***************************************************************************)
\* positions given to startAtPosition and update: one in each section
ReloadPositions == {0, 5, 9}

AdvanceReload == perf < MaxPerfReload /\ OneSecondPasses

NextReload ==
    \/ AdvanceReload
    \/ \E position \in ReloadPositions : AEStartAtPosition(position)
    \/ \E i \in 1..MaxLoads : AELoadCompleted(i)
    \/ \E i \in 1..MaxLoads : AELoadFailed(i)
    \/ \E position \in ReloadPositions : AEUpdate(position)
    \/ AEAudioEnded

SpecReload == InitAudio /\ [][NextReload]_vars

(***************************************************************************)
(* Overlap specification: the AudioEngine with room for a load to start    *)
(* while another one is in flight.                                         *)
(***************************************************************************)
OverlapPositions == {0, 5}

NextOverlap ==
    \/ Advance
    \/ \E position \in OverlapPositions : AEStartAtPositionWithin(position, MaxOverlap)
    \/ \E i \in 1..MaxOverlap : AELoadCompleted(i)
    \/ \E i \in 1..MaxOverlap : AELoadFailed(i)
    \/ \E position \in OverlapPositions : AEUpdateWithin(position, MaxOverlap)
    \/ AEAudioEnded

SpecOverlap == InitAudio /\ [][NextOverlap]_vars

(***************************************************************************)
(* Selector specification: the MediaController, with the StateManager's    *)
(* timeline handler feeding it the context; the audio engine is idle.      *)
(***************************************************************************)
\* positions of the broadcasts: one in every section and one outside the cycle
SelectorPositions == {0, 5, 9, 11}

SectionIdsOf(rm) == {rm.processedSections[i].id : i \in 1..Len(rm.processedSections)}

InitSelector ==
    /\ InitEnv(RouteMapping(MainConfig))
    /\ wall = 0

\* what every selector action leaves alone
SelectorFrame ==
    /\ op' = "media"
    /\ UNCHANGED <<mapVars, envVars, clockVars, audioVars, heard>>

\* the log of returned items after an outcome of pick-display-preload
PassLogAfter(o) ==
    IF o.section = NullId THEN passLog
    ELSE [passLog EXCEPT ![o.section] = IF o.reset THEN <<o.item>> ELSE Append(@, o.item)]

TakeOutcome(o) ==
    /\ mc' = o.m
    /\ timers' = o.timers
    /\ changes' = o.changes
    /\ passLog' = PassLogAfter(o)
    /\ display' = IF o.changes # <<>> THEN "shown" ELSE display
    /\ evicted' = evictedKey(mc, o.m)

\* MediaController.start
MCStart(sectionId) ==
    /\ Len(timers) < MaxTimers
    /\ \E o \in mcStart(mc, timers, sectionId) : TakeOutcome(o)
    /\ UNCHANGED sm
    /\ SelectorFrame

\* MediaController.pickNextMedia
MCPickNextMedia(sectionId) ==
    /\ \E p \in pickNextMedia(mc, sectionId) :
          TakeOutcome(Outcome(p.m, timers, <<>>, p.item, p.reset, sectionId))
    /\ UNCHANGED sm
    /\ SelectorFrame

\* MediaController.forceNext
MCForceNext ==
    /\ Len(timers) < MaxTimers
    /\ \E o \in transitionToNext(mc, timers, sm.currentContext) : TakeOutcome(o)
    /\ UNCHANGED sm
    /\ SelectorFrame

\* the renderer reports the end of the displayed video: MediaDisplay.onMediaEnded,
\* called by the 'ended' listener of the video; a video that failed to load
\* or play has no 'ended' event
MCVideoEnded ==
    /\ mc.currentMedia # Null
    /\ mc.currentMedia.type = "video"
    /\ display # "failed"
    /\ Len(timers) < MaxTimers
    /\ \E o \in transitionToNext(mc, timers, sm.currentContext) : TakeOutcome(o)
    /\ UNCHANGED sm
    /\ SelectorFrame

\* the oldest image timeout of displayMedia fires
MCImageTimeout ==
    /\ Len(timers) > 0
    /\ \E o \in transitionToNext(mc, Tail(timers), sm.currentContext) : TakeOutcome(o)
    /\ UNCHANGED sm
    /\ SelectorFrame

\* StateManager.onTimelineUpdate with the data of a broadcast; the page has
\* none of the 'now playing' elements, so lines 184-215 write nothing
SMOnTimelineUpdate(position) ==
    LET context == getContextAtPosition(route, position) IN
    IF context = Null
    THEN /\ changes' = <<>>
         /\ heard' = Num(position)
         /\ UNCHANGED <<mapVars, envVars, clockVars, audioVars, mc, sm, timers, passLog, display,
                      evicted, op>>
    ELSE LET r == update(route, ae, position, perf) IN
         /\ r.did = "reload" => Len(ae.loads) < MaxLoads
         /\ ae' = r.a
         /\ awaiting' = IF r.did = "reload" THEN Append(awaiting, "sync") ELSE awaiting
         /\ syncReloadFailed' = IF r.did \in {"reload", "seek", "nothing"}
                                THEN FALSE ELSE syncReloadFailed
         /\ UNCHANGED held
         /\ syncSeen' = IF r.did \in {"reload", "seek", "nothing"}
                        THEN [did |-> r.did, position |-> position, before |-> ae]
                        ELSE NoSync
         /\ selected' = Null
         /\ IF context.section.id # sm.lastSectionId
            THEN /\ sm' = [sm EXCEPT !.currentContext = context,
                                     !.lastSectionId = context.section.id]
                 /\ mc' \in onSectionChange(mc, context.section.id)
            ELSE /\ sm' = [sm EXCEPT !.currentContext = context]
                 /\ mc' = mc
         /\ evicted' = evictedKey(mc, mc')
         /\ heard' = Num(position)
         /\ changes' = <<>>
         /\ op' = "media"
         /\ UNCHANGED <<mapVars, envVars, clockVars, timers, passLog, display>>

NextSelector ==
    \/ \E sectionId \in SectionIdsOf(route) : MCStart(sectionId)
    \/ \E sectionId \in SectionIdsOf(route) : MCPickNextMedia(sectionId)
    \/ MCForceNext
    \/ MCVideoEnded
    \/ MCImageTimeout
    \/ \E position \in SelectorPositions : SMOnTimelineUpdate(position)

SpecSelector == InitSelector /\ [][NextSelector]_vars

(***************************************************************************)
(* Cache specification: the selector on a configuration whose first        *)
(* section has more media items than the prefetch cache has room for.      *)
(***************************************************************************)
CacheConfig ==
    ConfigOf(<< <<2>>, <<2>> >>,
             << [videos |-> <<"video_01", "video_02", "video_03", "video_04">>,
                 images |-> <<>>],
                [videos |-> <<>>, images |-> <<"image_01">>] >>)

\* one position in each section
CachePositions == {0, 2}

InitCache ==
    /\ InitEnv(RouteMapping(CacheConfig))
    /\ wall = 0

NextCache ==
    \/ \E sectionId \in SectionIdsOf(route) : MCStart(sectionId)
    \/ MCForceNext
    \/ MCVideoEnded
    \/ MCImageTimeout
    \/ \E position \in CachePositions : SMOnTimelineUpdate(position)

SpecCache == InitCache /\ [][NextCache]_vars

(***************************************************************************)
(* Commands specification: the StateManager's pause, resume and seekTo     *)
(* with the clock, the audio engine and the selector behind them, in a     *)
(* session in which StateManager.start is never called.                    *)
(***************************************************************************)
\* arguments given to StateManager.seekTo
CommandSeekArgs == {0 - 1, 0, 4, 10}

Bundle ==
    [ae |-> ae, sm |-> sm, mc |-> mc, awaiting |-> awaiting,
     syncReloadFailed |-> syncReloadFailed, syncSeen |-> syncSeen, held |-> held,
     heard |-> heard]

TakeBundle(b) ==
    /\ Len(b.ae.loads) <= MaxLoads
    /\ ae' = b.ae
    /\ sm' = b.sm
    /\ mc' = b.mc
    /\ evicted' = evictedKey(mc, b.mc)
    /\ awaiting' = b.awaiting
    /\ syncReloadFailed' = b.syncReloadFailed
    /\ held' = b.held
    /\ heard' = b.heard
    /\ syncSeen' = b.syncSeen

\* what every command leaves alone
CommandFrame ==
    /\ selected' = Null
    /\ changes' = <<>>
    /\ UNCHANGED <<mapVars, envVars, timers, passLog, display>>

\* the setInterval callback of TimelineEngine.start, with the manager subscribed
SMTick ==
    /\ liveIntervals > 0
    /\ LET r == checkSync(tl, wall, perf) IN
       /\ tl' = r.t
       /\ guard' = [ran |-> r.ran, resynced |-> r.resynced,
                    expected |-> r.expected, current |-> r.current]
       /\ emitted' = IF r.resynced
                     THEN <<UpdateData(tl, perf), UpdateData(r.t, perf)>>
                     ELSE <<UpdateData(tl, perf)>>
    /\ \E b \in broadcastTo(route, {Bundle}, emitted', perf) : TakeBundle(b)
    /\ op' = "tick"
    /\ ticked' = TRUE
    /\ UNCHANGED liveIntervals
    /\ CommandFrame
    /\ divTime' = DivTimeAfter(FALSE)
    /\ UNCHANGED seeked

\* StateManager.pause
SMPause ==
    /\ sm.isPlaying
    /\ LET r == tlStop(tl, liveIntervals) IN
       /\ tl' = r.t
       /\ liveIntervals' = r.liveIntervals
    /\ TakeBundle([Bundle EXCEPT !.ae = pause(ae), !.sm.isPlaying = FALSE, !.held = TRUE])
    /\ emitted' = <<>>
    /\ guard' = NoGuard
    /\ op' = "pause"
    /\ UNCHANGED ticked
    /\ CommandFrame
    /\ divTime' = DivTimeAfter(FALSE)
    /\ seeked' = Null

\* StateManager.resume
SMResume ==
    /\ ~sm.isPlaying
    /\ LET r == tlStart(tl, wall, perf, liveIntervals) IN
       /\ tl' = r.t
       /\ liveIntervals' = r.liveIntervals
       /\ emitted' = r.emitted
    /\ \E b \in broadcastTo(route, {Bundle}, emitted', perf) :
          TakeBundle([b EXCEPT !.ae = resume(b.ae), !.sm.isPlaying = TRUE, !.held = FALSE])
    /\ guard' = NoGuard
    /\ op' = "resume"
    /\ UNCHANGED ticked
    /\ CommandFrame
    /\ divTime' = DivTimeAfter(FALSE)
    /\ seeked' = Null

\* StateManager.seekTo, up to the await of startAtPosition
SMSeekTo(position) ==
    /\ tl' = seekTo(tl, position, perf)
    /\ emitted' = <<UpdateData(tl', perf)>>
    /\ \E b \in broadcastTo(route, {Bundle}, emitted', perf) :
          LET a == startAtPosition(route, b.ae, position) IN
          TakeBundle([b EXCEPT !.ae = a,
                               !.awaiting = IF Len(a.loads) > Len(b.ae.loads)
                                            THEN Append(@, "seekTo") ELSE @,
                               !.held = FALSE])
    /\ guard' = NoGuard
    /\ op' = "seekTo"
    /\ UNCHANGED <<liveIntervals, ticked>>
    /\ CommandFrame
    /\ divTime' = DivTimeAfter(FALSE)
    /\ seeked' = IF tl.isPlaying THEN [position |-> position, at |-> NowMs(perf)] ELSE Null

\* the load that StateManager.seekTo awaits succeeds: the rest of
\* startAtPosition, then the rest of seekTo
SMSeekLoadCompleted(i) ==
    /\ i \in 1..Len(ae.loads)
    /\ awaiting[i] = "seekTo"
    /\ ae' = loadCompleted(route, ae, i)
    /\ awaiting' = RemoveAt(awaiting, i)
    /\ syncReloadFailed' = FALSE
    /\ UNCHANGED held
    /\ selected' = nextFile(route, getContextAtPosition(route, ae.loads[i].position))
    /\ syncSeen' = NoSync
    /\ LET context == getContextAtPosition(route, ae.loads[i].position) IN
       IF context.section.id # sm.lastSectionId
       THEN /\ mc' \in onSectionChange(mc, context.section.id)
            /\ sm' = [sm EXCEPT !.lastSectionId = context.section.id]
       ELSE UNCHANGED <<mc, sm>>
    /\ evicted' = evictedKey(mc, mc')
    /\ UNCHANGED heard
    /\ op' = "audio"
    /\ emitted' = <<>>
    /\ guard' = NoGuard
    /\ changes' = <<>>
    /\ UNCHANGED <<mapVars, envVars, tl, liveIntervals, ticked, divTime, seeked, timers, passLog, display>>

InitCommands ==
    /\ InitEnv(RouteMapping(MainConfig))
    /\ wall = 0

AdvanceCommands == perf < MaxPerfCommands /\ OneSecondPasses

NextCommands ==
    \/ AdvanceCommands
    \/ SMTick
    \/ SMPause
    \/ SMResume
    \/ \E position \in CommandSeekArgs : SMSeekTo(position)
    \/ \E i \in 1..MaxLoads : SMSeekLoadCompleted(i)
    \/ \E i \in 1..MaxLoads : AELoadFailed(i)
    \/ AEAudioEnded

SpecCommands == InitCommands /\ [][NextCommands]_vars

(***************************************************************************)
(* Display specification: a session started by StateManager.start, with    *)
(* the renderer (MediaDisplay) showing each MediaChange, and visual assets *)
(* that may fail.  Timers that are due fire and videos that play end.      *)
(***************************************************************************)
\* StateManager.start, up to the await of startAtPosition; the entry
\* position of a non-empty route always has a context
SMStart ==
    /\ sm.isInitialized
    /\ ~sm.isPlaying
    /\ Len(ae.loads) < MaxLoads
    /\ LET entryPosition == calculatePositionFromTimeOfDay(tl, wall)
           r == tlStart(tl, wall, perf, liveIntervals)
       IN /\ getContextAtPosition(route, entryPosition) # Null
          /\ tl' = r.t
          /\ liveIntervals' = r.liveIntervals
          /\ emitted' = r.emitted
          /\ \E b \in broadcastTo(route, {Bundle}, r.emitted, perf) :
                TakeBundle([b EXCEPT !.ae = startAtPosition(route, b.ae, entryPosition),
                                     !.awaiting = Append(@, "start"),
                                     !.held = FALSE])
    /\ guard' = NoGuard
    /\ op' = "sessionStart"
    /\ UNCHANGED ticked
    /\ CommandFrame
    /\ divTime' = DivTimeAfter(FALSE)
    /\ seeked' = Null

\* the load that StateManager.start awaits succeeds: the rest of
\* startAtPosition, then the rest of start
SMStartLoadCompleted(i) ==
    /\ i \in 1..Len(ae.loads)
    /\ awaiting[i] = "start"
    /\ Len(timers) < MaxTimers
    /\ ae' = loadCompleted(route, ae, i)
    /\ awaiting' = RemoveAt(awaiting, i)
    /\ syncReloadFailed' = FALSE
    /\ UNCHANGED held
    /\ selected' = nextFile(route, getContextAtPosition(route, ae.loads[i].position))
    /\ syncSeen' = NoSync
    /\ LET context == getContextAtPosition(route, ae.loads[i].position) IN
       /\ \E o \in mcStart(mc, timers, context.section.id) : TakeOutcome(o)
       /\ sm' = [sm EXCEPT !.isPlaying = TRUE,
                           !.currentContext = context,
                           !.lastSectionId = context.section.id]
    /\ UNCHANGED heard
    /\ op' = "sessionStart"
    /\ emitted' = <<>>
    /\ guard' = NoGuard
    /\ UNCHANGED <<mapVars, envVars, tl, liveIntervals, ticked, divTime, seeked>>

\* the asset of the latest MediaChange fails to load or to play in the
\* renderer: createImageElement rejects, or the video's play() rejects and
\* is logged
MDMediaFailed ==
    /\ display = "shown"
    /\ display' = "failed"
    /\ changes' = <<>>
    /\ UNCHANGED <<mc, sm, timers, passLog, evicted>>
    /\ SelectorFrame

InitDisplay ==
    /\ InitEnv(RouteMapping(MainConfig))
    /\ wall = 0

AdvanceDisplay == perf < MaxPerfDisplay /\ OneSecondPasses

NextDisplay ==
    \/ AdvanceDisplay
    \/ SMStart
    \/ \E i \in 1..MaxLoads : SMStartLoadCompleted(i)
    \/ \E i \in 1..MaxLoads : AELoadFailed(i)
    \/ SMTick
    \/ AEAudioEnded
    \/ MCVideoEnded
    \/ MCImageTimeout
    \/ MDMediaFailed

SpecDisplay ==
    /\ InitDisplay
    /\ [][NextDisplay]_vars
    /\ WF_vars(MCVideoEnded)
    /\ WF_vars(MCImageTimeout)

(***************************************************************************)
(* Listener specification: the listeners array of a TimelineEngine, with   *)
(* callbacks that return, throw or unsubscribe themselves when called.     *)
(***************************************************************************)
ListenerIds == 1..MaxListeners

InitListeners ==
    /\ InitEnv(RouteMapping(MainConfig))
    /\ wall = 0

ListenerFrame ==
    UNCHANGED <<route, qpos, ctx, geo, envVars, clockVars, audioVars, mediaVars>>

\* TimelineEngine.subscribe
TLSubscribe(callback) ==
    /\ Len(listeners) < MaxListeners
    /\ listeners' = subscribe(listeners, callback)
    /\ delivery' = Null
    /\ op' = "subscribe"
    /\ ListenerFrame

\* the function a subscribe returned, called between broadcasts
TLUnsubscribe(callback) ==
    /\ listeners' = unsubscribe(listeners, callback)
    /\ delivery' = Null
    /\ op' = "unsubscribe"
    /\ ListenerFrame

\* TimelineEngine.emitUpdate
TLEmitUpdate(unsubscribing, throwing) ==
    /\ LET r == forEachListener(listeners, 1, Len(listeners), unsubscribing,
                                [c \in ListenerIds |-> 0])
       IN /\ listeners' = r.listeners
          /\ delivery' = [before |-> listeners, unsubscribing |-> unsubscribing,
                          throwing |-> throwing, got |-> r.got]
    /\ op' = "emitUpdate"
    /\ ListenerFrame

NextListeners ==
    \/ \E callback \in ListenerIds : TLSubscribe(callback)
    \/ \E callback \in ListenerIds : TLUnsubscribe(callback)
    \/ \E unsubscribing, throwing \in SUBSET ListenerIds : TLEmitUpdate(unsubscribing, throwing)

SpecListeners == InitListeners /\ [][NextListeners]_vars

(***************************************************************************)
(* Session specification: a session started by StateManager.start one      *)
(* second before the clock crosses from section_1 to section_2.            *)
(***************************************************************************)
InitSession ==
    /\ InitEnv(RouteMapping(MainConfig))
    /\ wall = 4

AdvanceSession == perf < MaxPerfSession /\ OneSecondPasses

NextSession ==
    \/ AdvanceSession
    \/ SMStart
    \/ \E i \in 1..MaxLoads : SMStartLoadCompleted(i)
    \/ \E i \in 1..MaxLoads : AELoadFailed(i)
    \/ SMTick
    \/ AEAudioEnded
    \/ MCVideoEnded
    \/ MCImageTimeout

SpecSession == InitSession /\ [][NextSession]_vars

(***************************************************************************)
(* Properties of the mapper                                                *)
(***************************************************************************)
\* the half-open range [startTime, endTime) of a section or of a file
Contains(x, p) == x.startTime <= p /\ p < x.endTime

AllDurationsPositive(rm) ==
    \A i \in 1..Len(rm.sections) :
        /\ Len(rm.sections[i].audioFiles) >= 1
        /\ \A k \in 1..Len(rm.sections[i].audioFiles) :
               rm.sections[i].audioFiles[k].duration > 0

\* C1: on a configuration with positive durations, a query at a position p in
\* [0, totalDuration) returns the one section whose [startTime, endTime)
\* holds p and the one audio file of it whose [startTime, endTime) holds p,
\* with offsetInFile = p - file.startTime in [0, file.duration).
C1_ContextIsTheContainingSectionAndFile ==
    (/\ qpos # Null
     /\ AllDurationsPositive(route)
     /\ qpos.num >= 0 /\ qpos.num < route.totalDuration)
    => LET p == qpos.num
           ps == route.processedSections
           secs == {i \in 1..Len(ps) : Contains(ps[i], p)}
       IN /\ ctx # Null
          /\ Cardinality(secs) = 1
          /\ \A i \in secs :
                LET files == {k \in 1..Len(ps[i].audioFiles) : Contains(ps[i].audioFiles[k], p)}
                IN /\ ctx.section.index = i - 1
                   /\ ctx.section.id = ps[i].id
                   /\ Cardinality(files) = 1
                   /\ \A k \in files :
                         /\ ctx.audio.file = ps[i].audioFiles[k]
                         /\ ctx.audio.offsetInFile = p - ps[i].audioFiles[k].startTime
                         /\ ctx.audio.offsetInFile >= 0
                         /\ ctx.audio.offsetInFile < ps[i].audioFiles[k].duration

\* a query exactly on the boundary between two sections was answered with the later one
C1_Witness ==
    /\ qpos # Null
    /\ AllDurationsPositive(route)
    /\ Len(route.processedSections) = 2
    /\ qpos.num = route.processedSections[2].startTime
    /\ ctx # Null
    /\ ctx.section.index = 1

\* C2: the sections' time ranges are contiguous from 0 to totalDuration in
\* configuration order, and the files' ranges of every section are contiguous
\* from the section's startTime to its endTime.
C2_TimeRangesPartition ==
    LET ps == route.processedSections IN
    /\ Len(ps) > 0 => (ps[1].startTime = 0 /\ ps[Len(ps)].endTime = route.totalDuration)
    /\ \A i \in 1..(Len(ps) - 1) : ps[i].endTime = ps[i + 1].startTime
    /\ \A i \in 1..Len(ps) :
          LET fs == ps[i].audioFiles IN
          /\ ps[i].endTime = ps[i].startTime + ps[i].duration
          /\ Len(fs) > 0 => (fs[1].startTime = ps[i].startTime
                              /\ fs[Len(fs)].endTime = ps[i].endTime)
          /\ \A k \in 1..(Len(fs) - 1) : fs[k].endTime = fs[k + 1].startTime
          /\ \A k \in 1..Len(fs) : fs[k].endTime = fs[k].startTime + fs[k].duration

\* two sections of two files each have been processed and queried
C2_Witness ==
    /\ Len(route.processedSections) = 2
    /\ \A i \in 1..2 : Len(route.processedSections[i].audioFiles) = 2
    /\ AllDurationsPositive(route)
    /\ route.totalDuration >= 4
    /\ op = "getContextAtPosition"

\* the configuration has no section, or an audio file whose duration is not positive
Malformed(rm) ==
    \/ Len(rm.sections) = 0
    \/ \E i \in 1..Len(rm.sections) :
          \E k \in 1..Len(rm.sections[i].audioFiles) :
              rm.sections[i].audioFiles[k].duration <= 0

\* C18: on a configuration with no section or with an audio file of
\* non-positive duration the manager is not initialized and the mapper gives
\* no context to operate on.
C18_MalformedConfigurationIsRejected ==
    Malformed(route) => (~sm.isInitialized /\ ctx = Null)

\* C22: a query at a position below 0 or at or beyond totalDuration returns
\* no context.
C22_NoContextOutsideTheCycle ==
    (qpos # Null /\ (qpos.num < 0 \/ qpos.num >= route.totalDuration)) => ctx = Null

\* the fraction f is the number n
IsNumber(f, n) == f # NaN /\ f.num = n * f.den

\* the result of the latest interpolation is the point
ResultIs(point) ==
    /\ geo.result # Undefined
    /\ geo.result # [thrown |-> "TypeError"]
    /\ IsNumber(geo.result.lat, point[1])
    /\ IsNumber(geo.result.lng, point[2])

\* C23: on a path with at least one point, progress <= 0 gives the first
\* point and progress >= 1 the last one; and at a progress strictly between
\* whose target distance is the cumulative distance of an interior vertex
\* the result is that vertex.
C23_InterpolationHitsEndpointsAndVertices ==
    (op = "interpolateGeoPosition" /\ Len(geo.path) >= 1)
    => /\ geo.progress <= 0 => ResultIs(geo.path[1])
       /\ geo.progress >= ProgressDen => ResultIs(geo.path[Len(geo.path)])
       /\ \A k \in 2..(Len(geo.path) - 1) :
             (/\ geo.progress > 0
              /\ geo.progress < ProgressDen
              /\ geo.progress * distancesUpTo(geo.path, Len(geo.path))
                    = distancesUpTo(geo.path, k) * ProgressDen)
             => ResultIs(geo.path[k])

\* the fraction f lies between the integers x and y
Between(f, x, y) ==
    /\ f # NaN
    /\ f.den > 0
    /\ (IF x <= y THEN x ELSE y) * f.den <= f.num
    /\ f.num <= (IF x <= y THEN y ELSE x) * f.den

\* the point [lat, lng] lies on the straight edge from a to b
OnEdge(point, a, b) ==
    /\ Between(point.lat, a[1], b[1])
    /\ Between(point.lng, a[2], b[2])
    /\ (point.lat.num - a[1] * point.lat.den) * point.lng.den * (b[2] - a[2])
          = (point.lng.num - a[2] * point.lng.den) * point.lat.den * (b[1] - a[1])

\* C34: on a path of two or more points with a zero-length edge (two
\* consecutive equal points), every progress in [0,1] gives a coordinate
\* whose latitude and longitude are numbers and which lies on an edge of
\* the path.
C34_ZeroLengthEdgesGiveACoordinateOnThePath ==
    (/\ op = "interpolateGeoPosition"
     /\ Len(geo.path) >= 2
     /\ \E i \in 1..(Len(geo.path) - 1) : geo.path[i] = geo.path[i + 1]
     /\ geo.progress >= 0
     /\ geo.progress <= ProgressDen)
    => /\ geo.result # Undefined
       /\ geo.result # [thrown |-> "TypeError"]
       /\ geo.result.lat # NaN
       /\ geo.result.lng # NaN
       /\ \E i \in 1..(Len(geo.path) - 1) :
             OnEdge(geo.result, geo.path[i], geo.path[i + 1])

(***************************************************************************)
(* Properties of the clock                                                 *)
(***************************************************************************)
\* the position the time of day maps to
TimeOfDayPosition == wall % tl.totalDuration

\* the latest operation called resync (directly or from the drift guard)
Resynced == op = "resync" \/ (op = "tick" /\ guard.resynced)

\* C5: right after start() and right after every resync() the position is
\* (seconds since midnight) mod totalDuration, and so is the position that
\* resync broadcasts; a second resync() at the same instant changes nothing.
C5_StartAndResyncGiveTimeOfDayPosition ==
    /\ (op = "start" \/ Resynced)
          => /\ getCurrentPosition(tl, perf) = TimeOfDayPosition
             /\ emitted[Len(emitted)].position = TimeOfDayPosition
    /\ resync(resync(tl, wall, perf), wall, perf) = resync(tl, wall, perf)

\* resync() was called on a clock that had been running for a while, away from 0
C5_Witness ==
    /\ op = "resync"
    /\ tl.isPlaying
    /\ tl.startTime.num >= 2000
    /\ TimeOfDayPosition >= 2

\* C6: a drift-guard pass calls resync() exactly when the shortest-arc
\* distance of the two positions it compares exceeds 2 s.
C6_GuardResyncsIffCircularDistanceExceeds ==
    (op = "tick" /\ guard.ran)
        => (guard.resynced
              <=> CircularDistance(guard.expected, guard.current, tl.totalDuration)
                     > TimelineDriftThreshold)

\* C7: while the loop keeps firing, a running clock does not stay more than
\* 2 s away from the time-of-day position for longer than one drift-guard
\* interval, and it is not diverged after a pass of the guard.
C7_DivergenceEndsWithinOneGuardInterval ==
    /\ divTime * 1000 <= TimelineSyncCheckInterval
    /\ (op = "tick" /\ guard.ran) => ~Diverged(tl, wall, perf)

\* the guard found the clock more than 2 s (shortest arc) away and resynced it
C7_Witness ==
    /\ op = "tick"
    /\ guard.resynced
    /\ CircularDistance(guard.expected, guard.current, tl.totalDuration)
           > TimelineDriftThreshold
    /\ ~Diverged(tl, wall, perf)

\* C8: the clock position, and the position of every broadcast, is in
\* [0, totalDuration).
C8_PositionWithinCycle ==
    /\ getCurrentPosition(tl, perf) >= 0
    /\ getCurrentPosition(tl, perf) < tl.totalDuration
    /\ \A i \in 1..Len(emitted) :
          emitted[i].position >= 0 /\ emitted[i].position < tl.totalDuration

\* C14: stop() leaves getCurrentPosition() at the position of the last
\* broadcast made before it, and the position of a stopped clock changes only
\* by start(), resync() or seekTo().
C14_StopFreezesLastBroadcastPosition ==
    [][/\ (op' = "stop" /\ emitted # <<>>)
             => getCurrentPosition(tl', perf') = emitted[Len(emitted)].position
       /\ (~tl.isPlaying /\ op' \notin {"start", "resync", "seekTo"})
             => getCurrentPosition(tl', perf') = getCurrentPosition(tl, perf)]_vars

\* C15: there is never more than one uncleared broadcast loop, and there is
\* one exactly while the clock is running, so none after a stop(); stop() on a
\* stopped clock and start() on a running clock change nothing.
C15_AtMostOneBroadcastLoop ==
    /\ liveIntervals <= 1
    /\ liveIntervals = 1 <=> tl.isPlaying
    /\ tl.updateInterval <=> tl.isPlaying
    /\ op = "stop" => (liveIntervals = 0 /\ ~ENABLED TLTick)
    /\ ~tl.isPlaying =>
          tlStop(tl, liveIntervals) = [t |-> tl, liveIntervals |-> liveIntervals]
    /\ tl.isPlaying =>
          tlStart(tl, wall, perf, liveIntervals)
              = [t |-> tl, liveIntervals |-> liveIntervals, emitted |-> <<>>]

\* the clock has been started again after a run in which the drift guard
\* made a pass, and a stop
C15_Witness ==
    /\ op = "start"
    /\ tl.isPlaying
    /\ liveIntervals = 1
    /\ tl.lastSyncCheck >= TimelineSyncCheckInterval
    /\ tl.startTime.num > tl.lastSyncCheck

\* C16: in a session in which StateManager.start has not been called, the
\* commands pause, resume and seekTo leave the clock stopped, start no audio
\* load or playback, and leave the manager's and the engine's playing flags
\* false.
C16_CommandsBeforeStartHaveNoEffect ==
    /\ ~tl.isPlaying
    /\ liveIntervals = 0
    /\ ae.loads = <<>>
    /\ ae.currentAudio = Null
    /\ ~ae.isPlaying
    /\ ~sm.isPlaying

\* C20: after a MediaChange whose asset then fails to load or play in the
\* renderer, another MediaChange is eventually emitted.
C20_FailedAssetIsFollowedByAnotherDraw == (display = "failed") ~> (display = "shown")

\* C28: the item of every draw (every MediaChange) belongs to the pool of
\* the section that contains the position of the latest broadcast.
C28_DrawsComeFromTheBroadcastSection ==
    changes # <<>>
        => /\ heard # Null
           /\ LET context == getContextAtPosition(route, heard.num) IN
              /\ context # Null
              /\ \A c \in 1..Len(changes) :
                    \E k \in 1..Len(context.mediaPool) : context.mediaPool[k] = changes[c]

\* C29: on a step that broadcasts one position to the manager, the manager
\* takes the section-change branch of onTimelineUpdate (it assigns
\* lastSectionId and calls onSectionChange) exactly when an earlier
\* broadcast exists and its position lies in another section than this one.
C29_ReportsExactlyTheCrossings ==
    [][(Len(emitted') = 1 /\ heard' # Null /\ heard'.num = emitted'[1].position
            /\ getContextAtPosition(route, emitted'[1].position) # Null)
        => LET here     == getContextAtPosition(route, emitted'[1].position).section.id
               crossing == /\ heard # Null
                           /\ getContextAtPosition(route, heard.num) # Null
                           /\ getContextAtPosition(route, heard.num).section.id # here
           IN (sm'.lastSectionId # sm.lastSectionId) <=> crossing]_vars

\* C30: while the clock runs after seekTo(p), every broadcast carries the
\* position reached from p (modulo totalDuration, the code's %) by the time
\* elapsed since the seek, and the timeline still starts from p.
C30_SeekedTimelineStaysInEffect ==
    (seeked # Null /\ tl.isPlaying)
        => /\ tl.startPosition = Num(JsMod(seeked.position, tl.totalDuration))
           /\ tl.startTime = Num(seeked.at)
           /\ \A e \in 1..Len(emitted) :
                 emitted[e].position =
                     JsMod(JsMod(seeked.position, tl.totalDuration)
                               + (emitted[e].timestamp - seeked.at) \div 1000,
                           tl.totalDuration)

\* C36: an operation broadcasts a PositionUpdate to the listeners only if
\* the clock is Running once the operation is done.
C36_BroadcastsOnlyWhileRunning ==
    emitted # <<>> => tl.isPlaying

(***************************************************************************)
(* Properties of the audio engine                                          *)
(***************************************************************************)
\* a sync pass got past its guards: the engine was playing, had an element, and
\* the mapper had a context for the expected position
SyncPassRan == syncSeen.did \in {"reload", "seek", "nothing"}

\* C9: a sync pass does exactly one of: a reload by startAtPosition(expected
\* position) when the mapper's active resource is not the one the current
\* element has loaded; a seek of the current element to the expected offset,
\* with no reload, when it is the same and the offsets differ by more than
\* 0.5 s; nothing when it is the same and they differ by at most 0.5 s.
C9_SyncPassReloadsSeeksOrLeaves ==
    SyncPassRan =>
        LET before == syncSeen.before
            context == getContextAtPosition(route, syncSeen.position)
            E == context.audio.offsetInFile
            A == before.currentAudio.currentTime
            unchanged == [before EXCEPT !.lastSyncCheck = ae.lastSyncCheck]
        IN IF context.audio.file.url # before.currentAudio.src
           THEN /\ syncSeen.did = "reload"
                /\ ae = [unchanged EXCEPT !.loads =
                            Append(@, [fileInfo |-> context.audio.file,
                                       offset |-> E,
                                       position |-> syncSeen.position])]
           ELSE IF 2 * Abs(E - A) > 1
           THEN /\ syncSeen.did = "seek"
                /\ ae = [unchanged EXCEPT !.currentAudio.currentTime = E]
           ELSE /\ syncSeen.did = "nothing"
                /\ ae = unchanged

\* the resource that follows the resource of a context in playback order: the
\* next one of its section, else the first one of the next section, else the
\* first one of the first section
FollowingResource(rm, context) ==
    LET ps == rm.processedSections
        i == context.section.index + 1
        k == context.audio.file.index + 1
    IN IF k < Len(ps[i].audioFiles) THEN ps[i].audioFiles[k + 1]
       ELSE IF i < Len(ps) THEN ps[i + 1].audioFiles[1]
       ELSE ps[1].audioFiles[1]

\* the context of the position of the startAtPosition call that last completed
StartedContext == getContextAtPosition(route, ae.currentFileInfo.startTime)

\* C10: the resource preloadNextFile selects after a start is the one that
\* follows the started resource in playback order.
C10_PreloadSelectsFollowingResource ==
    selected # Null => selected = FollowingResource(route, StartedContext)

\* the 'ended' event of the current element has just been handled
EndedSeen == syncSeen.did = "ended"

\* the processed file of a resource url
FileOfUrl(url) == route.processedSections[url[2]].audioFiles[url[3]]

\* the resource that follows the resource url in playback order
FollowingUrl(url) ==
    FollowingResource(route, getContextAtPosition(route, FileOfUrl(url).startTime)).url

\* C11: after the end of the current resource with a preloaded handle in
\* place, the current element plays the resource that follows the ended one,
\* currentFileInfo names that resource too, and the preloaded slot is empty.
C11_HandoffPlaysAndRecordsFollowingResource ==
    (EndedSeen /\ syncSeen.before.nextAudio # Null)
        => LET next == FollowingUrl(syncSeen.before.currentAudio.src) IN
           /\ ae.currentAudio # Null
           /\ ae.currentAudio.src = next
           /\ ~ae.currentAudio.paused
           /\ ae.currentFileInfo # Null
           /\ ae.currentFileInfo.url = next
           /\ ae.nextAudio = Null

\* C12: after the end of the current resource with no preloaded handle, a
\* load has been started by the handler of the end event.
C12_EndWithoutPreloadStartsAReload ==
    (EndedSeen /\ syncSeen.before.nextAudio = Null)
        => Len(ae.loads) = Len(syncSeen.before.loads) + 1

\* C17: once the engine has been destroyed, no element of the engine is
\* playing and no preloaded handle is kept, whatever completes afterwards.
C17_NothingPlaysAfterDestroy ==
    ae.audioContext = "closed"
        => /\ ae.nextAudio = Null
           /\ ae.currentAudio = Null \/ ae.currentAudio.paused \/ ae.currentAudio.ended

\* the step is a sync pass of the engine
SyncPassStep == SyncPassRan' /\ syncSeen'.before = ae

\* C19: the failure of a reload that a sync pass started changes neither the
\* clock nor the engine's playing flag, and the next sync pass after it
\* starts a reload again when the mapper's active resource is not the one
\* the current element has loaded.
C19_FailedReloadIsRetriedByNextSyncPass ==
    [][/\ (~syncReloadFailed /\ syncReloadFailed')
             => /\ tl' = tl
                /\ liveIntervals' = liveIntervals
                /\ ae'.isPlaying = ae.isPlaying
       /\ (syncReloadFailed /\ SyncPassStep
              /\ getContextAtPosition(route, syncSeen'.position).audio.file.url
                     # ae.currentAudio.src)
             => /\ syncSeen'.did = "reload"
                /\ Len(ae'.loads) = Len(ae.loads) + 1]_vars

\* C24: a sync pass that runs while a load (started by startAtPosition or by
\* an earlier sync pass) is in flight starts no second load and leaves
\* currentAudio, currentFileInfo and isPlaying as they are.
C24_SyncPassDuringALoadStartsNoLoad ==
    [][(SyncPassStep /\ ae.loads # <<>>)
          => /\ ae'.loads = ae.loads
             /\ ae'.currentAudio = ae.currentAudio
             /\ ae'.currentFileInfo = ae.currentFileInfo
             /\ ae'.isPlaying = ae.isPlaying]_vars

\* C26: after a handoff the promoted element has an 'ended' listener and a
\* handle on the resource that follows the promoted one has been preloaded,
\* so that its own end is again answered by a handoff.
C26_HandoffKeepsTheChainGoing ==
    (EndedSeen /\ syncSeen.before.nextAudio # Null)
        => /\ ae.currentAudio # Null
           /\ ae.currentAudio.endedListener
           /\ ae.nextAudio # Null
           /\ ae.nextAudio.src = FollowingUrl(ae.currentAudio.src)

\* C27: every startAtPosition that succeeds leaves a preloaded handle on the
\* resource its preloadNextFile selected as the follower of the one started,
\* also when that resource has been preloaded before.
C27_StartLeavesAHandleOnTheFollower ==
    selected # Null => (ae.nextAudio # Null /\ ae.nextAudio.src = selected.url)

\* C25: from the return of pause() until its owner calls resume() (or starts
\* the engine again with startAtPosition), the playing flag is false and no
\* element plays, whatever load was in flight when pause() was called.
C25_PausedEngineStaysSilent ==
    held => /\ ~ae.isPlaying
            /\ ae.currentAudio # Null => ae.currentAudio.paused

(***************************************************************************)
(* Properties of the selector                                              *)
(***************************************************************************)
\* number of occurrences of x in a sequence
Count(seq, x) == Cardinality({i \in 1..Len(seq) : seq[i] = x})

Elements(seq) == {seq[i] : i \in 1..Len(seq)}

\* the original combined pool of a section
PoolOf(id) ==
    FirstMatch(route.processedSections,
               {i \in 1..Len(route.processedSections) :
                    route.processedSections[i].id = id}).mediaPoolCombined

\* C3: in a section with a pool of N >= 1 entries, the draws made since the
\* pool was fresh or last reset are pairwise different entries of the pool,
\* the entries not yet drawn in this pass are exactly the ones still
\* available, and so N draws of a pass return every entry once.
C3_NoRepeatWithinAPass ==
    \A id \in DOMAIN passLog :
        Len(PoolOf(id)) >= 1 =>
            LET log == passLog[id] IN
            /\ \A i, j \in 1..Len(log) : log[i] = log[j] => i = j
            /\ Elements(log) \subseteq Elements(PoolOf(id))
            /\ Elements(mc.sectionStates[id].available) = Elements(PoolOf(id)) \ Elements(log)
            /\ Len(mc.sectionStates[id].available) = Len(PoolOf(id)) - Len(log)
            /\ Len(log) = Len(PoolOf(id)) => Elements(log) = Elements(PoolOf(id))

\* a full pass over the three entries of section_1, with a draw on section_2 in between
C3_Witness ==
    /\ Len(passLog["section_1"]) = 3
    /\ Len(passLog["section_2"]) = 1
    /\ mc.sectionStates["section_1"].available = <<>>
    /\ mc.currentMedia # Null

\* C4: for every section, available and shown together hold exactly the
\* entries of the section's original combined pool, each as often as the pool.
C4_AvailableAndShownAreThePool ==
    \A id \in DOMAIN mc.sectionStates :
        LET both == mc.sectionStates[id].available \o mc.sectionStates[id].shown IN
        /\ Len(both) = Len(PoolOf(id))
        /\ \A x \in Elements(both) \cup Elements(PoolOf(id)) :
              Count(both, x) = Count(PoolOf(id), x)

\* the urls of the entries of a list of media items
Urls(items) == {items[i].url : i \in 1..Len(items)}

\* a step in which the selector is notified of a crossing into a section
\* that is not its current one
SectionChangeNotified ==
    /\ sm'.lastSectionId # sm.lastSectionId
    /\ sm'.lastSectionId # mc.currentSection

\* a step in which the displayed item ends: the renderer reports the end of
\* a video, or the timeout of an image fires
ItemEnded == (MCVideoEnded \/ MCImageTimeout) /\ sm.currentContext # Null

\* C13: a notice of a crossing into another section emits no MediaChange,
\* keeps the displayed item, its pending timeouts and every section's draw
\* state, makes the new section current, and leaves in the prefetch cache
\* exactly one entry, taken from the new section; the draw made when the
\* item ends comes from the pool of the section last crossed into.
C13_SectionChangeIsSoft ==
    [][/\ SectionChangeNotified =>
             /\ changes' = <<>>
             /\ mc'.currentMedia = mc.currentMedia
             /\ timers' = timers
             /\ mc'.sectionStates = mc.sectionStates
             /\ mc'.currentSection = sm'.lastSectionId
             /\ Len(mc'.preloadCache) = 1
             /\ mc'.preloadCache[1] \in Urls(PoolOf(sm'.lastSectionId))
       /\ ItemEnded =>
             /\ mc'.currentSection = sm.lastSectionId
             /\ \A i \in 1..Len(changes') :
                    changes'[i] \in Elements(PoolOf(sm.lastSectionId))]_vars

\* C21: the prefetch cache never holds more than maxCacheSize (3) entries,
\* and an operation that inserts into a full cache deletes the entry that
\* was inserted earliest (the first key), keeps the others in their order
\* and puts the new key, which was not cached before, last.
C21_CacheBoundedAndEarliestEvicted ==
    [][LET cache == mc.preloadCache
           after == mc'.preloadCache
       IN /\ Len(after) <= MaxCacheSize
          /\ (Len(cache) = MaxCacheSize /\ Len(after) = MaxCacheSize /\ after # cache)
                 => /\ after = Append(Tail(cache), after[MaxCacheSize])
                    /\ after[MaxCacheSize] \notin Elements(cache)
                    /\ evicted' = cache[1]
                    /\ evicted' \notin Elements(after)]_vars

\* a full cache from which the latest operation has evicted a key
C21_Witness ==
    /\ evicted # NullId
    /\ Len(mc.preloadCache) = MaxCacheSize
    /\ mc.nextMedia.url = mc.preloadCache[MaxCacheSize]

\* C31: a section's shown list loses entries only in a step that found the
\* section's available list empty; that step leaves one entry in shown and
\* the other N-1 entries of the pool of N, the ones shown before, in available.
C31_ResetOnlyWhenAvailableIsEmpty ==
    [][\A id \in DOMAIN mc.sectionStates :
          LET state == mc.sectionStates[id]
              after == mc'.sectionStates[id]
          IN /\ state.available # <<>>
                   => /\ Len(after.shown) >= Len(state.shown)
                      /\ SubSeq(after.shown, 1, Len(state.shown)) = state.shown
             /\ (after # state /\ state.available = <<>>)
                   => /\ Len(after.shown) = 1
                      /\ Len(after.available) = Len(PoolOf(id)) - 1
                      /\ \A x \in Elements(state.shown) \cup Elements(after.available \o after.shown) :
                            Count(after.available \o after.shown, x) = Count(state.shown, x)]_vars

\* after holds the timeouts of pending, or all of them but the oldest
PendingKept(pending, after) ==
    \/ after = pending
    \/ pending # <<>> /\ after = Tail(pending)

\* C32: a MediaChange for an image adds exactly one timeout, for that image,
\* to the pending ones; a MediaChange for a video adds none; and a draw made
\* while a video is displayed is never made by a timeout (the pending
\* timeouts are all still pending after it).
C32_OneTimeoutPerImageNoneForVideos ==
    [][changes' # <<>> =>
          /\ changes'[1].type = "image"
                => /\ Len(timers') >= 1
                   /\ timers'[Len(timers')] = changes'[1]
                   /\ PendingKept(timers, SubSeq(timers', 1, Len(timers') - 1))
          /\ changes'[1].type = "video" => PendingKept(timers, timers')
          /\ (mc.currentMedia # Null /\ mc.currentMedia.type = "video")
                => /\ Len(timers') >= Len(timers)
                   /\ SubSeq(timers', 1, Len(timers)) = timers]_vars

\* C33: when the oldest pending timeout was scheduled for an item that is
\* no longer the displayed one, the step in which it fires (the pending
\* timeouts are not all still pending afterwards) emits no MediaChange and
\* draws nothing.
C33_StaleTimeoutDrawsNothing ==
    [][(/\ timers # <<>>
        /\ Head(timers) # mc.currentMedia
        /\ ~(Len(timers') >= Len(timers) /\ SubSeq(timers', 1, Len(timers)) = timers))
          => /\ changes' = <<>>
             /\ mc'.sectionStates = mc.sectionStates
             /\ mc'.currentMedia = mc.currentMedia]_vars

\* C35: for a section whose combined pool is empty, every item
\* pickNextMedia has returned is undefined, and the section's available and
\* shown lists are empty.
C35_EmptyPoolStaysEmpty ==
    \A id \in DOMAIN mc.sectionStates :
        PoolOf(id) = <<>>
            => /\ \A k \in 1..Len(passLog[id]) : passLog[id][k] = Undefined
               /\ mc.sectionStates[id].available = <<>>
               /\ mc.sectionStates[id].shown = <<>>

\* a step in which the load that StateManager.start awaits fails: start
\* catches the error and returns false
StartFailed ==
    /\ op' = "audio"
    /\ \E i \in 1..Len(awaiting) :
          /\ awaiting[i] = "start"
          /\ awaiting' = RemoveAt(awaiting, i)
          /\ Len(ae'.loads) = Len(ae.loads) - 1

\* C37: when StateManager.start fails, the clock is Stopped and the
\* manager, the clock and the audio engine are all not playing.
C37_FailedStartLeavesNothingRunning ==
    [][StartFailed => /\ ~tl'.isPlaying
                      /\ liveIntervals' = 0
                      /\ ~sm'.isPlaying
                      /\ ~ae'.isPlaying]_vars

\* C38: in a broadcast, a callback that does not unsubscribe itself is
\* called once for each time it was in the listeners array when the
\* broadcast began (not at all if it was not subscribed then), whichever
\* other callbacks throw or unsubscribe themselves while it is delivered; a
\* callback that unsubscribes itself is called at least once if it was
\* subscribed and never more often than it was subscribed.
C38_EverySubscribedListenerIsCalledOnce ==
    delivery # Null
        => \A callback \in ListenerIds :
              LET subscribed == Count(delivery.before, callback) IN
              IF callback \in delivery.unsubscribing
              THEN /\ delivery.got[callback] <= subscribed
                   /\ subscribed >= 1 => delivery.got[callback] >= 1
              ELSE delivery.got[callback] = subscribed

\* C39: the last-check time changes only in an update() made while the
\* engine is playing, to the time of that update and by more than
\* syncCheckInterval (5 s); an update() made while the engine is playing and
\* more than the interval after the last check runs a pass (it sets the
\* last-check time), and any other update() runs none and keeps the
\* last-check time, the engine being left as it is when it is not playing.
C39_SyncPassesAreMoreThanTheIntervalApart ==
    [][/\ ae'.lastSyncCheck # ae.lastSyncCheck
             => /\ op' = "update"
                /\ ae.isPlaying
                /\ ae'.lastSyncCheck = NowMs(perf)
                /\ ae'.lastSyncCheck - ae.lastSyncCheck > AudioSyncCheckInterval
       /\ op' = "update"
             => IF ae.isPlaying /\ NowMs(perf) - ae.lastSyncCheck > AudioSyncCheckInterval
                THEN ae'.lastSyncCheck = NowMs(perf)
                ELSE /\ ae'.lastSyncCheck = ae.lastSyncCheck
                     /\ syncSeen' = NoSync
                     /\ ~ae.isPlaying => ae' = ae]_vars

\* a second sync pass has just run, one interval and a second after the first
C39_Witness ==
    /\ op = "update"
    /\ ae.isPlaying
    /\ ae.lastSyncCheck = NowMs(perf)
    /\ ae.lastSyncCheck >= 2 * (AudioSyncCheckInterval + 1000)

====
